---- MODULE Spec2Model ----
(***************************************************************************)
(* Model of nodejs/awsx/sqs/metrics.ts: the AWS/SQS and AWS/Cognito        *)
(* CloudWatch metric helpers.  A helper call is modelled in the steps of   *)
(* its code: the exported helper builds the argument of metric(), metric() *)
(* derives the dimensions, builds the constructor's argument record,       *)
(* constructs the Metric and applies the derived dimensions.               *)
(*                                                                         *)
(* JavaScript objects are functions from their own keys to values, so a    *)
(* key that is present with the value undefined differs from a key that is *)
(* absent.  cloudwatch.Metric and Metric.withDimensions live outside this  *)
(* file; they are modelled from the specification (sections 2, 3 and 4.1). *)
(***************************************************************************)
EXTENDS Naturals, FiniteSets, Sequences, TLC

\* ---------------------------------------------------------------- bounds
NumCallers == 2
NumResources == 2
MaxBetween == 2

Callers == 1..NumCallers
MainCaller == 1

\* ---------------------------------------------------------------- values
EmptyMap == [k \in {} |-> ""]

Undef == [t |-> "undef", s |-> "", m |-> EmptyMap]
Null == [t |-> "null", s |-> "", m |-> EmptyMap]
Str(x) == [t |-> "str", s |-> x, m |-> EmptyMap]
Ref(r) == [t |-> "res", s |-> r, m |-> EmptyMap]
Map(f) == [t |-> "map", s |-> "", m |-> f]

EmptyObj == [k \in {} |-> Undef]

\* property read: an absent key reads as undefined
Get(o, k) == IF k \in DOMAIN o THEN o[k] ELSE Undef

\* object spread { ...a, ...b }: the later source wins, key by key
Spread(a, b) ==
  [k \in (DOMAIN a) \cup (DOMAIN b) |-> IF k \in DOMAIN b THEN b[k] ELSE a[k]]

Single(k, v) == [x \in {k} |-> v]

\* an optional argument: given with an object, or absent (undefined)
Given(o) == [given |-> TRUE, obj |-> o]
AbsentArg == [given |-> FALSE, obj |-> EmptyObj]

\* ---------------------------------------------------------------- resources
ResourceIds == <<"r1", "r2", "r3", "r4">>
AttrValues == <<"orders", "events", "audit", "mail">>
Resources == {ResourceIds[i] : i \in 1..NumResources}
AttrOf(r) == AttrValues[CHOOSE i \in 1..NumResources : ResourceIds[i] = r]

\* ---------------------------------------------------------------- catalog
SqsHelpers ==
  {"approximateAgeOfOldestMessage", "approximateNumberOfMessagesDelayed",
   "approximateNumberOfMessagesNotVisible", "approximateNumberOfMessagesVisible",
   "numberOfEmptyReceives", "numberOfMessagesDeleted", "numberOfMessagesReceived",
   "numberOfMessagesSent", "sentMessageSize"}

CognitoHelpers ==
  {"compromisedCredentialsRisk", "accountTakeOverRisk", "overrideBlock", "risk",
   "noRisk"}

Helpers == SqsHelpers \cup CognitoHelpers

Service(h) == IF h \in SqsHelpers THEN "sqs" ELSE "cognito"

MetricName(h) ==
  CASE h = "approximateAgeOfOldestMessage" -> "ApproximateAgeOfOldestMessage"
    [] h = "approximateNumberOfMessagesDelayed" -> "ApproximateNumberOfMessagesDelayed"
    [] h = "approximateNumberOfMessagesNotVisible" -> "ApproximateNumberOfMessagesNotVisible"
    [] h = "approximateNumberOfMessagesVisible" -> "ApproximateNumberOfMessagesVisible"
    [] h = "numberOfEmptyReceives" -> "NumberOfEmptyReceives"
    [] h = "numberOfMessagesDeleted" -> "NumberOfMessagesDeleted"
    [] h = "numberOfMessagesReceived" -> "NumberOfMessagesReceived"
    [] h = "numberOfMessagesSent" -> "NumberOfMessagesSent"
    [] h = "sentMessageSize" -> "SentMessageSize"
    [] h = "compromisedCredentialsRisk" -> "CompromisedCredentialsRisk"
    [] h = "accountTakeOverRisk" -> "AccountTakeOverRisk"
    [] h = "overrideBlock" -> "OverrideBlock"
    [] h = "risk" -> "Risk"
    [] h = "noRisk" -> "NoRisk"
    [] OTHER -> ""

\* the unit literal an SQS helper spreads ahead of the change
DefaultUnit(h) ==
  CASE h = "approximateAgeOfOldestMessage" -> "Seconds"
    [] h = "sentMessageSize" -> "Bytes"
    [] OTHER -> "Count"

Namespace(svc) == IF svc = "sqs" THEN "AWS/SQS" ELSE "AWS/Cognito"
ResourceKey(svc) == IF svc = "sqs" THEN "queue" ELSE "userPool"
DimensionKey(svc) == IF svc = "sqs" THEN "QueueName" ELSE "UserPoolId"

\* ---------------------------------------------------------------- pure parts
\* variant: the helper forgets its default unit
HelperArgumentNoDefault(h, ch) == ch

\* variant: the default unit is spread after the change
HelperArgumentDefaultLast(h, ch) ==
  IF h \in SqsHelpers
    THEN Given(Spread(ch.obj, Single("unit", Str(DefaultUnit(h)))))
    ELSE ch

\* variant: the default unit also replaces a unit that is undefined
HelperArgumentDefaultIfUndefined(h, ch) ==
  IF h \in SqsHelpers
    THEN Given(Spread(ch.obj,
                      Single("unit", IF Get(ch.obj, "unit") = Undef
                                       THEN Str(DefaultUnit(h))
                                       ELSE Get(ch.obj, "unit"))))
    ELSE ch

\* the exported helper: the argument it hands to metric()
HelperArgument(h, ch) ==
  IF h \in SqsHelpers
    THEN Given(Spread(Single("unit", Str(DefaultUnit(h))), ch.obj))
    ELSE ch

\* metric(metricName, change = {}): the default parameter value
MetricParam(a) == IF a.given THEN a.obj ELSE EmptyObj

\* variant: the resource's attribute is read without the undefined test
DerivedDimensionsUnguarded(svc, change, attrs) ==
  LET ref == Get(change, ResourceKey(svc))
  IN  IF ref.t = "res"
        THEN [threw |-> FALSE, dims |-> Single(DimensionKey(svc), attrs[ref.s])]
        ELSE [threw |-> TRUE, dims |-> EmptyMap]

\* variant: the dimension's value is the reference, not its attribute
DerivedDimensionsNoAttr(svc, change, attrs) ==
  LET ref == Get(change, ResourceKey(svc))
  IN  IF ref = Undef
        THEN [threw |-> FALSE, dims |-> EmptyMap]
        ELSE [threw |-> FALSE, dims |-> Single(DimensionKey(svc), ref.s)]

\* metric(): const dimensions = {}; if (change.<resource> !== undefined)
\* dimensions.<Key> = change.<resource>.<attribute>.  Reading the attribute
\* of null throws; undefined never gets there.
DerivedDimensions(svc, change, attrs) ==
  LET ref == Get(change, ResourceKey(svc))
  IN  IF ref = Undef
        THEN [threw |-> FALSE, dims |-> EmptyMap]
        ELSE IF ref.t = "res"
          THEN [threw |-> FALSE, dims |-> Single(DimensionKey(svc), attrs[ref.s])]
          ELSE [threw |-> TRUE, dims |-> EmptyMap]

\* the record handed to the Metric constructor
ConstructorArgs(svc, metricName, change) ==
  Spread([k \in {"namespace", "name"} |->
            IF k = "namespace" THEN Str(Namespace(svc)) ELSE Str(metricName)],
         change)

\* cloudwatch.Metric: the descriptor keeps the fields of its argument record
Metric(a) ==
  [namespace |-> Get(a, "namespace"), name |-> Get(a, "name"),
   dimensions |-> Get(a, "dimensions"), unit |-> Get(a, "unit"),
   statistic |-> Get(a, "statistic"), period |-> Get(a, "period")]

\* Metric.withDimensions: a new descriptor, the given dimensions merged over
\* the descriptor's own
WithDimensions(d, dims) ==
  [d EXCEPT !.dimensions =
     IF d.dimensions.t = "map" THEN Map(Spread(d.dimensions.m, dims))
                               ELSE Map(dims)]

NoDesc == Metric(EmptyObj)
NoKept ==
  [set |-> FALSE, helper |-> "none", change |-> AbsentArg, desc |-> NoDesc,
   between |-> 0]

\* a whole helper call run on its own: helper, metric(), constructor,
\* withDimensions
HelperResult(h, ch, attrs) ==
  LET p == MetricParam(HelperArgument(h, ch))
      r == DerivedDimensions(Service(h), p, attrs)
  IN  WithDimensions(Metric(ConstructorArgs(Service(h), MetricName(h), p)), r.dims)

\* ---------------------------------------------------------------- state
VARIABLES pc, hlp, chg, param, dimensions, args, desc, kept, resAttr

vars == <<pc, hlp, chg, param, dimensions, args, desc, kept, resAttr>>

Init ==
  /\ pc = [c \in Callers |-> "idle"]
  /\ hlp = [c \in Callers |-> "none"]
  /\ chg = [c \in Callers |-> AbsentArg]
  /\ param = [c \in Callers |-> EmptyObj]
  /\ dimensions = [c \in Callers |-> EmptyMap]
  /\ args = [c \in Callers |-> EmptyObj]
  /\ desc = [c \in Callers |-> NoDesc]
  /\ kept = NoKept
  /\ resAttr = [r \in Resources |-> AttrOf(r)]

\* ---------------------------------------------------------------- inputs
Units == {"Seconds", "Count", "Bytes"}

OneOf(k, vals) == {EmptyObj} \cup {Single(k, v) : v \in vals}

ResOpts(svc) == OneOf(ResourceKey(svc), {Undef} \cup {Ref(r) : r \in Resources})
UnitOpts == OneOf("unit", {Undef} \cup {Str(u) : u \in Units})
DimOpts ==
  OneOf("dimensions", {Map(Single("QueueName", "other")),
                       Map(Single("UserPoolId", "other")),
                       Map(Single("Tag", "x"))})
NamespaceOpts == OneOf("namespace", {Str("AWS/EC2")})
NameOpts == OneOf("name", {Str("CPUUtilization")})
StatisticOpts == OneOf("statistic", {Str("Sum")})
PeriodOpts == OneOf("period", {Str("60")})

\* the change arguments a caller may pass to a helper of service svc
Changes(svc) ==
  {AbsentArg} \cup
  {Given(Spread(r, Spread(u, Spread(d, Spread(ns, Spread(n, Spread(st, p))))))) :
     r \in ResOpts(svc), u \in UnitOpts, d \in DimOpts, ns \in NamespaceOpts,
     n \in NameOpts, st \in StatisticOpts, p \in PeriodOpts}

SqsChanges == Changes("sqs")
CognitoChanges == Changes("cognito")

\* the calls a caller may make: a helper and the change passed to it
Calls ==
  {<<h, ch>> : h \in SqsHelpers, ch \in SqsChanges} \cup
  {<<h, ch>> : h \in CognitoHelpers, ch \in CognitoChanges}

\* ---------------------------------------------------------------- actions
\* a caller makes one of the given calls; the helper calls metric()
Invoke(c, calls) ==
  /\ pc[c] = "idle"
  /\ \E call \in calls :
       /\ hlp' = [hlp EXCEPT ![c] = call[1]]
       /\ chg' = [chg EXCEPT ![c] = call[2]]
       /\ param' = [param EXCEPT ![c] =
                      MetricParam(HelperArgument(call[1], call[2]))]
  /\ pc' = [pc EXCEPT ![c] = "metric"]
  /\ UNCHANGED <<dimensions, args, desc, kept, resAttr>>

\* variant: dimensions is one object shared by all calls, never reset
DeriveHoisted(c) ==
  /\ pc[c] = "metric"
  /\ LET r == DerivedDimensions(Service(hlp[c]), param[c], resAttr)
     IN  /\ dimensions' = [d \in Callers |-> Spread(dimensions[c], r.dims)]
         /\ pc' = [pc EXCEPT ![c] = IF r.threw THEN "threw" ELSE "derived"]
  /\ UNCHANGED <<hlp, chg, param, args, desc, kept, resAttr>>

\* metric(): a fresh dimensions object, filled from the resource reference
Derive(c) ==
  /\ pc[c] = "metric"
  /\ LET r == DerivedDimensions(Service(hlp[c]), param[c], resAttr)
     IN  IF r.threw
           THEN /\ pc' = [pc EXCEPT ![c] = "threw"]
                /\ UNCHANGED dimensions
           ELSE /\ pc' = [pc EXCEPT ![c] = "derived"]
                /\ dimensions' = [dimensions EXCEPT ![c] = r.dims]
  /\ UNCHANGED <<hlp, chg, param, args, desc, kept, resAttr>>

\* variant: the fixed fields are assigned into the change object itself; a
\* Cognito helper passes the caller's own object to metric()
ConstructInPlace(c) ==
  /\ pc[c] = "derived"
  /\ LET a == ConstructorArgs(Service(hlp[c]), MetricName(hlp[c]), param[c])
     IN  /\ args' = [args EXCEPT ![c] = a]
         /\ desc' = [desc EXCEPT ![c] = Metric(a)]
         /\ param' = [param EXCEPT ![c] = a]
         /\ chg' = [chg EXCEPT ![c] =
                     IF hlp[c] \in CognitoHelpers /\ chg[c].given
                       THEN Given(a) ELSE chg[c]]
  /\ pc' = [pc EXCEPT ![c] = "constructed"]
  /\ UNCHANGED <<hlp, dimensions, kept, resAttr>>

\* metric(): new cloudwatch.Metric({ namespace, name, ...change })
Construct(c) ==
  /\ pc[c] = "derived"
  /\ LET a == ConstructorArgs(Service(hlp[c]), MetricName(hlp[c]), param[c])
     IN  /\ args' = [args EXCEPT ![c] = a]
         /\ desc' = [desc EXCEPT ![c] = Metric(a)]
  /\ pc' = [pc EXCEPT ![c] = "constructed"]
  /\ UNCHANGED <<hlp, chg, param, dimensions, kept, resAttr>>

\* variant: the derived dimensions go into the constructor's record ahead of
\* the change instead of being applied afterwards
ApplyDimensionsFirst(c) ==
  /\ pc[c] = "constructed"
  /\ desc' = [desc EXCEPT ![c] =
                Metric(Spread(Single("dimensions", Map(dimensions[c])), args[c]))]
  /\ pc' = [pc EXCEPT ![c] = "done"]
  /\ UNCHANGED <<hlp, chg, param, dimensions, args, kept, resAttr>>

\* metric(): .withDimensions(dimensions), the value the helper returns
ApplyDimensions(c) ==
  /\ pc[c] = "constructed"
  /\ desc' = [desc EXCEPT ![c] = WithDimensions(desc[c], dimensions[c])]
  /\ pc' = [pc EXCEPT ![c] = "done"]
  /\ UNCHANGED <<hlp, chg, param, dimensions, args, kept, resAttr>>

\* the call frame is left: the caller is free for its next call.  The dead
\* local dimensions is not cleared; the next call starts from a fresh one.
Leave(c) ==
  /\ pc' = [pc EXCEPT ![c] = "idle"]
  /\ hlp' = [hlp EXCEPT ![c] = "none"]
  /\ chg' = [chg EXCEPT ![c] = AbsentArg]
  /\ param' = [param EXCEPT ![c] = EmptyObj]
  /\ args' = [args EXCEPT ![c] = EmptyObj]
  /\ desc' = [desc EXCEPT ![c] = NoDesc]
  /\ UNCHANGED <<dimensions, resAttr>>

\* the caller drops the returned descriptor; a descriptor kept from an
\* earlier call has seen one more call complete
Return(c) ==
  /\ pc[c] = "done"
  /\ Leave(c)
  /\ kept' = IF kept.set /\ kept.between < MaxBetween
               THEN [kept EXCEPT !.between = kept.between + 1]
               ELSE kept

\* the caller keeps the returned descriptor, with the inputs that produced it
ReturnKeep(c) ==
  /\ pc[c] = "done"
  /\ ~kept.set
  /\ kept' = [set |-> TRUE, helper |-> hlp[c], change |-> chg[c],
              desc |-> desc[c], between |-> 0]
  /\ Leave(c)

Step(c) ==
  \/ Derive(c)
  \/ Construct(c)
  \/ ApplyDimensions(c)
  \/ Return(c)

\* one caller, every helper, every change
Next ==
  \/ Invoke(MainCaller, Calls)
  \/ Step(MainCaller)

Spec == Init /\ [][Next]_vars

\* ------------------------------------------------- repeated calls
FirstResource == ResourceIds[1]
LastResource == ResourceIds[NumResources]

HistChanges(svc) ==
  {AbsentArg, Given(EmptyObj),
   Given(Single(ResourceKey(svc), Ref(FirstResource))),
   Given(Single(ResourceKey(svc), Ref(LastResource))),
   Given(Spread(Single(ResourceKey(svc), Ref(FirstResource)),
                Single("unit", Str("Bytes")))),
   Given(Spread(Single("unit", Undef),
                Single("dimensions", Map(Single("QueueName", "other")))))}

HistSqsChanges == HistChanges("sqs")
HistCognitoChanges == HistChanges("cognito")

HistCalls ==
  {<<h, ch>> : h \in SqsHelpers, ch \in HistSqsChanges} \cup
  {<<h, ch>> : h \in CognitoHelpers, ch \in HistCognitoChanges}

\* one caller making call after call, keeping one of the descriptors
HistNext ==
  \/ Invoke(MainCaller, HistCalls)
  \/ Step(MainCaller)
  \/ ReturnKeep(MainCaller)

HistSpec == Init /\ [][HistNext]_vars

\* ------------------------------------------------- concurrent callers
ConcHelpers == {"approximateAgeOfOldestMessage", "numberOfMessagesSent", "noRisk"}

ConcChanges(svc) ==
  {AbsentArg,
   Given(Single(ResourceKey(svc), Ref(FirstResource))),
   Given(Single("dimensions", Map(Single("Tag", "x")))),
   Given(Spread(Single(ResourceKey(svc), Ref(LastResource)),
                Spread(Single("unit", Str("Bytes")),
                       Single("dimensions", Map(Single(DimensionKey(svc), "other"))))))}

ConcCalls == {<<h, ch>> : h \in ConcHelpers, ch \in ConcChanges("sqs") \cup ConcChanges("cognito")}

\* any number of callers, their steps interleaved in any order
ConcNext ==
  \E c \in Callers :
    \/ Invoke(c, ConcCalls)
    \/ Step(c)

ConcSpec == Init /\ [][ConcNext]_vars

\* ---------------------------------------------------------------- claims
Done(c) == pc[c] = "done"

\* the fields of the change the caller passed (none when it passed no change)
Passed(c) == chg[c].obj

\* the resource reference in the caller's change: queue for an SQS helper,
\* userPool for a Cognito helper
PassedRef(c) == Get(Passed(c), IF hlp[c] \in SqsHelpers THEN "queue" ELSE "userPool")
HasRef(c) == PassedRef(c).t = "res"

\* the dimensions field of the caller's change, empty when it has none
OwnDimensions(c) ==
  IF Get(Passed(c), "dimensions").t = "map" THEN Passed(c)["dimensions"].m
                                             ELSE EmptyMap

FixedKey(c) == IF hlp[c] \in SqsHelpers THEN "QueueName" ELSE "UserPoolId"

\* the documented default unit: the Units line of the helper's comment; the
\* Cognito helpers document none
DocumentedUnit(h) ==
  IF h \in CognitoHelpers THEN Undef
  ELSE IF h = "approximateAgeOfOldestMessage" THEN Str("Seconds")
  ELSE IF h = "sentMessageSize" THEN Str("Bytes")
  ELSE Str("Count")

\* C1: for every helper and every change, the record handed to the Metric
\* constructor has the helper's namespace and metric name, also when the
\* change carries fields named namespace or name.
C1_FixedNamespaceAndName ==
  \A c \in Callers :
    pc[c] \in {"constructed", "done"} =>
      /\ Get(args[c], "namespace") = Str(Namespace(Service(hlp[c])))
      /\ Get(args[c], "name") = Str(MetricName(hlp[c]))

\* C2 as stated: a call whose change has no resource reference (or no change)
\* returns empty dimensions and the documented default unit.
C2_NoRefGivesEmptyAndDefault ==
  \A c \in Callers :
    Done(c) /\ ~HasRef(c) =>
      /\ desc[c].dimensions = Map(EmptyMap)
      /\ desc[c].unit = DocumentedUnit(hlp[c])

\* C2 amended: a call whose change has no resource reference, no unit key and
\* no dimensions field (or no change at all) returns empty dimensions and the
\* documented default unit (no unit for a Cognito helper).
C2_NoRefNoUnitNoDimensions ==
  \A c \in Callers :
    (/\ Done(c)
     /\ ~HasRef(c)
     /\ "unit" \notin DOMAIN Passed(c)
     /\ "dimensions" \notin DOMAIN Passed(c)) =>
      /\ desc[c].dimensions = Map(EmptyMap)
      /\ desc[c].unit = DocumentedUnit(hlp[c])

C2_Witness ==
  \E c \in Callers :
    /\ Done(c) /\ chg[c].given /\ ~HasRef(c)
    /\ hlp[c] = "sentMessageSize"
    /\ "unit" \notin DOMAIN Passed(c) /\ "dimensions" \notin DOMAIN Passed(c)
    /\ "statistic" \in DOMAIN Passed(c)
    /\ desc[c].unit = Str("Bytes")

\* C3 as stated: with a resource reference R the returned dimensions are
\* exactly the one entry fixed key -> R's attribute, whatever else the change
\* holds.
C3_ExactlyOneDimension ==
  \A c \in Callers :
    Done(c) /\ HasRef(c) =>
      desc[c].dimensions = Map(Single(FixedKey(c), resAttr[PassedRef(c).s]))

\* C3 amended: with a resource reference R the returned dimensions map the
\* fixed key to R's attribute and otherwise hold exactly the entries of the
\* change's own dimensions under other keys; so the fixed key is the only
\* entry when the change has no dimensions of its own under another key.
C3_DerivedDimensionMerged ==
  \A c \in Callers :
    Done(c) /\ HasRef(c) =>
      /\ desc[c].dimensions.t = "map"
      /\ DOMAIN desc[c].dimensions.m = DOMAIN OwnDimensions(c) \cup {FixedKey(c)}
      /\ \A k \in DOMAIN desc[c].dimensions.m :
           desc[c].dimensions.m[k] =
             IF k = FixedKey(c) THEN resAttr[PassedRef(c).s] ELSE OwnDimensions(c)[k]

C3_Witness ==
  \E c \in Callers :
    /\ Done(c) /\ HasRef(c)
    /\ hlp[c] \in CognitoHelpers
    /\ DOMAIN OwnDimensions(c) = {"UserPoolId"}
    /\ Cardinality(DOMAIN desc[c].dimensions.m) = 1

\* C4: when the change carries a resource reference and a dimensions mapping
\* of its own with the fixed key, the returned value for the fixed key is the
\* derived one; the derived dimension is never lost to the change.
C4_DerivedDimensionWins ==
  \A c \in Callers :
    Done(c) /\ HasRef(c) =>
      /\ desc[c].dimensions.t = "map"
      /\ FixedKey(c) \in DOMAIN desc[c].dimensions.m
      /\ desc[c].dimensions.m[FixedKey(c)] = resAttr[PassedRef(c).s]

C4_Witness ==
  \E c \in Callers :
    /\ Done(c) /\ HasRef(c)
    /\ FixedKey(c) \in DOMAIN OwnDimensions(c)
    /\ OwnDimensions(c)[FixedKey(c)] # resAttr[PassedRef(c).s]
    /\ desc[c].dimensions.m[FixedKey(c)] = resAttr[PassedRef(c).s]

\* C5: an SQS helper called with a change whose unit is u returns unit u in
\* place of its default, and with a resource reference also the derived
\* dimension.
C5_UnitOverride ==
  \A c \in Callers :
    Done(c) /\ hlp[c] \in SqsHelpers /\ "unit" \in DOMAIN Passed(c) =>
      /\ desc[c].unit = Passed(c)["unit"]
      /\ HasRef(c) =>
           /\ desc[c].dimensions.t = "map"
           /\ "QueueName" \in DOMAIN desc[c].dimensions.m
           /\ desc[c].dimensions.m["QueueName"] = resAttr[PassedRef(c).s]

C5_Witness ==
  \E c \in Callers :
    /\ Done(c) /\ hlp[c] = "approximateAgeOfOldestMessage" /\ HasRef(c)
    /\ Get(Passed(c), "unit") = Str("Count")
    /\ desc[c].unit = Str("Count")
    /\ "QueueName" \in DOMAIN desc[c].dimensions.m

\* C6: a call with the same helper and an equal change as an earlier call
\* returns a descriptor equal to the earlier one, whatever calls were made in
\* between.
C6_SameInputsSameDescriptor ==
  \A c \in Callers :
    Done(c) /\ kept.set /\ hlp[c] = kept.helper /\ chg[c] = kept.change =>
      desc[c] = kept.desc

C6_Witness ==
  \E c \in Callers :
    /\ Done(c) /\ kept.set /\ hlp[c] = kept.helper /\ chg[c] = kept.change
    /\ kept.between >= 1
    /\ ~HasRef(c)
    /\ dimensions[c] = EmptyMap

\* C7: no call ends in an error; a call that is done has returned a
\* descriptor.
C7_NoFailure ==
  \A c \in Callers :
    /\ pc[c] # "threw"
    /\ Done(c) => desc[c] # NoDesc /\ desc[c].dimensions.t = "map"

C7_Witness ==
  \E c \in Callers :
    /\ Done(c) /\ chg[c].given
    /\ hlp[c] \in SqsHelpers
    /\ "queue" \in DOMAIN Passed(c) /\ Passed(c)["queue"] = Undef
    /\ "period" \in DOMAIN Passed(c)

\* C8: a call changes nothing but its own result: the caller's change record
\* stays as passed during the call, the resources keep their attributes, and
\* a descriptor kept from an earlier call stays as it was returned.
C8_NoSideEffect ==
  [][/\ \A c \in Callers :
          pc[c] # "idle" /\ pc'[c] # "idle" => chg'[c] = chg[c]
     /\ resAttr' = resAttr
     /\ kept.set => /\ kept'.desc = kept.desc
                    /\ kept'.change = kept.change
                    /\ kept'.helper = kept.helper]_vars

C8_Witness ==
  \E c \in Callers :
    /\ Done(c) /\ kept.set /\ HasRef(c)
    /\ hlp[c] \in CognitoHelpers
    /\ "unit" \in DOMAIN Passed(c)
    /\ desc[c] # kept.desc

\* C9: with any number of callers and any interleaving of their steps, each
\* caller's descriptor is the one its call returns when run on its own.
C9_Isolation ==
  \A c \in Callers :
    Done(c) => desc[c] = HelperResult(hlp[c], chg[c], resAttr)

C9_Witness ==
  \E c \in Callers : \E d \in Callers :
    /\ c # d
    /\ Done(c) /\ HasRef(c)
    /\ pc[d] = "constructed" /\ ~HasRef(d)
    /\ dimensions[c] # dimensions[d]

\* C10: an SQS helper returns its default unit when the change has no unit
\* key, and the value of the key when it has one, also when that value is
\* undefined (the default is then gone); a Cognito helper returns the change's
\* unit, and none when the change has none.
C10_UnitKeyDecides ==
  \A c \in Callers :
    Done(c) =>
      IF hlp[c] \in SqsHelpers
        THEN /\ "unit" \notin DOMAIN Passed(c) => desc[c].unit = DocumentedUnit(hlp[c])
             /\ "unit" \in DOMAIN Passed(c) => desc[c].unit = Passed(c)["unit"]
             /\ ("unit" \in DOMAIN Passed(c) /\ Passed(c)["unit"] = Undef) =>
                  desc[c].unit # DocumentedUnit(hlp[c])
        ELSE desc[c].unit = Get(Passed(c), "unit")

C10_Witness ==
  \E c \in Callers :
    /\ Done(c) /\ hlp[c] \in SqsHelpers
    /\ "unit" \in DOMAIN Passed(c) /\ Passed(c)["unit"] = Undef
    /\ desc[c].unit = Undef

====
